---- MODULE Spec2Model ----
(***************************************************************************)
(* Incremental Delaunay triangulation of jtuu/dungeons                     *)
(* (DelaunayTriangulator and delaunayTriangulate, with the geometric       *)
(* primitives of geometry.ts and math.ts).                                 *)
(*                                                                         *)
(* Coordinates are integers.  Every quantity the program derives from them *)
(* by division (bounding-box centre, circumradius, circumcentre, hash key) *)
(* is kept as an exact fraction; comparisons are made by cross             *)
(* multiplication with positive denominators.                              *)
(* Indices are 0-based as in the program; typed arrays are functions over  *)
(* 0..len-1.                                                               *)
(***************************************************************************)
EXTENDS Integers, Sequences, FiniteSets, TLC

\* ---------------------------------------------------------------- bounds
MaxCoord == 1
MaxPoints == 4
MaxStack == 12

Coords == 0..MaxCoord
Grid == Coords \X Coords

\* ------------------------------------------------------------ JS helpers
\* value of an out-of-range typed-array or array read
Undefined == 0 - 9
\* JavaScript %: the result has the sign of the dividend
JsMod(a, m) == IF a >= 0 THEN a % m ELSE 0 - ((0 - a) % m)
Abs(x) == IF x < 0 THEN 0 - x ELSE x
\* typed-array read: undefined outside the buffer
Get(arr, i) == IF i \in DOMAIN arr THEN arr[i] ELSE Undefined
\* typed-array write: ignored outside the buffer, undefined is stored as 0
Put(arr, i, v) ==
    IF i \in DOMAIN arr
    THEN [arr EXCEPT ![i] = IF v = Undefined THEN 0 ELSE v]
    ELSE arr

\* -------------------------------------------------- geometry.ts, math.ts
\* math.ts distance2
distance2(p0, p1) ==
    LET dx == p0[1] - p1[1]
        dy == p0[2] - p1[2]
    IN dx * dx + dy * dy

\* geometry.ts Triangle.area
TriArea(p0, p1, p2) ==
    (p1[2] - p0[2]) * (p2[1] - p1[1]) - (p1[1] - p0[1]) * (p2[2] - p1[2])

\* the getter without the guard `bl && cl && d && ... || Infinity`: the bare
\* quotient, 0/0 (NaN) when everything vanishes
circumradiusNoGuard(p0, p1, p2) ==
    LET dx == p1[1] - p0[1]
        dy == p1[2] - p0[2]
        ex == p2[1] - p0[1]
        ey == p2[2] - p0[2]
        bl == dx * dx + dy * dy
        cl == ex * ex + ey * ey
        d == dx * ey - dy * ex
        xn == ey * bl - dy * cl
        yn == dx * cl - ex * bl
    IN [num |-> xn * xn + yn * yn, den |-> 4 * d * d]

\* geometry.ts Triangle.circumradius, as the fraction num/den with den > 0;
\* den = 0 stands for Infinity
circumradius(p0, p1, p2) ==
    LET dx == p1[1] - p0[1]
        dy == p1[2] - p0[2]
        ex == p2[1] - p0[1]
        ey == p2[2] - p0[2]
        bl == dx * dx + dy * dy
        cl == ex * ex + ey * ey
        d == dx * ey - dy * ex
        xn == ey * bl - dy * cl
        yn == dx * cl - ex * bl
    IN IF bl = 0 \/ cl = 0 \/ d = 0 \/ xn * xn + yn * yn = 0
       THEN [num |-> 1, den |-> 0]
       ELSE [num |-> xn * xn + yn * yn, den |-> 4 * d * d]

\* r < s for two circumradius values (Infinity < Infinity is false)
RadiusLess(r, s) ==
    IF r.den = 0 THEN FALSE
    ELSE IF s.den = 0 THEN TRUE
    ELSE r.num * s.den < s.num * r.den

\* geometry.ts Triangle.circumcenter, as (x/d, y/d) with d > 0
circumcenter(p0, p1, p2) ==
    LET dx == p1[1] - p0[1]
        dy == p1[2] - p0[2]
        ex == p2[1] - p0[1]
        ey == p2[2] - p0[2]
        bl == dx * dx + dy * dy
        cl == ex * ex + ey * ey
        d == dx * ey - dy * ex
        xn == p0[1] * 2 * d + (ey * bl - dy * cl)
        yn == p0[2] * 2 * d + (dx * cl - ex * bl)
    IN IF d > 0 THEN [x |-> xn, y |-> yn, d |-> 2 * d]
       ELSE [x |-> 0 - xn, y |-> 0 - yn, d |-> 0 - 2 * d]

\* the in-circle test with a non-strict comparison
circumcircleContainsNonStrict(p0, p1, p2, point) ==
    LET dx == p0[1] - point[1]
        dy == p0[2] - point[1]
        ex == p1[1] - point[1]
        ey == p1[2] - point[2]
        fx == p2[1] - point[1]
        fy == p2[2] - point[2]
        ap == dx * dx + dy * dy
        bp == ex * ex + ey * ey
        cp == fx * fx + fy * fy
    IN dx * (ey * cp - bp * fy) - dy * (ex * cp - bp * fx)
         + ap * (ex * fy - ey * fx) <= 0

\* geometry.ts Triangle.circumcircleContains (dy is taken against point.x)
circumcircleContains(p0, p1, p2, point) ==
    LET dx == p0[1] - point[1]
        dy == p0[2] - point[1]
        ex == p1[1] - point[1]
        ey == p1[2] - point[2]
        fx == p2[1] - point[1]
        fy == p2[2] - point[2]
        ap == dx * dx + dy * dy
        bp == ex * ex + ey * ey
        cp == fx * fx + fy * fy
    IN dx * (ey * cp - bp * fy) - dy * (ex * cp - bp * fx)
         + ap * (ex * fy - ey * fx) < 0

\* ------------------------------------------------------------------ state
VARIABLES
    points,     \* the input sequence (constructor argument), 1..n
    pc,         \* "new", "insert", "trimmed", "done", "failed"
    err,        \* "" or the error raised
    seed,       \* <<i0, i1, i2>> after orientation
    center,     \* circumcentre of the seed triangle
    ids,        \* sorted point indices, function over 0..n-1
    k,          \* position of the insertion loop in ids
    prevPt,     \* (xp, yp) of the loop, <<>> while undefined
    hashTab,    \* this.hash: bucket -> node id, 0 for null
    triangles,  \* this.triangles
    halfEdges,  \* this.halfEdges
    trianglesLength,
    nodes,      \* hull nodes by creation order: [i, t, prev, next, removed]
    hull,       \* this.hull, a node id
    inserted,   \* indices of the points for which an insertion completed
    out,        \* the Triangle list returned by delaunayTriangulate
    prior,      \* outcomes of the earlier calls on the same points
    args,       \* the arguments of a call of one function on its own
    ret         \* <<>> before that call returns, <<value>> after

vars == <<points, pc, err, seed, center, ids, k, prevPt, hashTab, triangles,
          halfEdges, trianglesLength, nodes, hull, inserted, out,
          prior, args, ret>>

N == Len(points)
Pt(i) == points[i + 1]

\* ------------------------------------------- constructor: seed selection
\* lines 152-169: twice the centre of the bounding box (c = c2 / 2)
RECURSIVE MinOf(_, _, _)
MinOf(i, axis, m) ==
    IF i >= N THEN m
    ELSE MinOf(i + 1, axis, IF Pt(i)[axis] < m THEN Pt(i)[axis] ELSE m)
RECURSIVE MaxOf(_, _, _)
MaxOf(i, axis, m) ==
    IF i >= N THEN m
    ELSE MaxOf(i + 1, axis, IF Pt(i)[axis] > m THEN Pt(i)[axis] ELSE m)
\* the running minimum and maximum start at the first point, which is what
\* the first iteration leaves of Infinity and -Infinity; for the empty
\* input the centre is NaN and never used
BoxCenter2 ==
    IF N = 0 THEN <<0, 0>>
    ELSE <<MinOf(1, 1, Pt(0)[1]) + MaxOf(1, 1, Pt(0)[1]),
           MinOf(1, 2, Pt(0)[2]) + MaxOf(1, 2, Pt(0)[2])>>
\* 4 * distance2(c, p) for c = c2 / 2
CenterDist4(c2, p) ==
    LET dx == c2[1] - 2 * p[1]
        dy == c2[2] - 2 * p[2]
    IN dx * dx + dy * dy

\* lines 171-180; minDist = -1 stands for Infinity, best = Undefined for
\* the initial i0 = Infinity
RECURSIVE FindI0(_, _, _, _)
FindI0(i, c2, best, minDist) ==
    IF i >= N THEN best
    ELSE LET d == CenterDist4(c2, Pt(i))
         IN IF minDist = 0 - 1 \/ d < minDist
            THEN FindI0(i + 1, c2, i, d)
            ELSE FindI0(i + 1, c2, best, minDist)

\* lines 182-191
RECURSIVE FindI1(_, _, _, _)
\* a search for the second seed point that accepts a copy of the first
RECURSIVE FindI1AnyDistance(_, _, _, _)
FindI1AnyDistance(i, i0, best, minDist) ==
    IF i >= N THEN best
    ELSE IF i = i0 THEN FindI1AnyDistance(i + 1, i0, best, minDist)
    ELSE LET d == distance2(Pt(i0), Pt(i))
         IN IF minDist = 0 - 1 \/ d < minDist
            THEN FindI1AnyDistance(i + 1, i0, i, d)
            ELSE FindI1AnyDistance(i + 1, i0, best, minDist)

FindI1(i, i0, best, minDist) ==
    IF i >= N THEN best
    ELSE IF i = i0 THEN FindI1(i + 1, i0, best, minDist)
    ELSE LET d == distance2(Pt(i0), Pt(i))
         IN IF (minDist = 0 - 1 \/ d < minDist) /\ d > 0
            THEN FindI1(i + 1, i0, i, d)
            ELSE FindI1(i + 1, i0, best, minDist)

\* lines 193-207; reading points[i1] with i1 = Infinity gives undefined and
\* the circumradius getter raises a TypeError on it
RECURSIVE FindI2(_, _, _, _, _)
\* a search for the third seed point that keeps the first candidate with a
\* finite circumradius
RECURSIVE FindI2FirstFinite(_, _, _, _, _)
FindI2FirstFinite(i, i0, i1, best, minRadius) ==
    IF i >= N THEN [i2 |-> best, r |-> minRadius, err |-> ""]
    ELSE IF i = i0 \/ i = i1
         THEN FindI2FirstFinite(i + 1, i0, i1, best, minRadius)
    ELSE IF i1 = Undefined
         THEN [i2 |-> best, r |-> minRadius, err |-> "TypeError"]
    ELSE LET r == circumradius(Pt(i0), Pt(i1), Pt(i))
         IN IF minRadius.den = 0 /\ r.den # 0
            THEN FindI2FirstFinite(i + 1, i0, i1, i, r)
            ELSE FindI2FirstFinite(i + 1, i0, i1, best, minRadius)

FindI2(i, i0, i1, best, minRadius) ==
    IF i >= N THEN [i2 |-> best, r |-> minRadius, err |-> ""]
    ELSE IF i = i0 \/ i = i1 THEN FindI2(i + 1, i0, i1, best, minRadius)
    ELSE IF i1 = Undefined
         THEN [i2 |-> best, r |-> minRadius, err |-> "TypeError"]
    ELSE LET r == circumradius(Pt(i0), Pt(i1), Pt(i))
         IN IF RadiusLess(r, minRadius)
            THEN FindI2(i + 1, i0, i1, i, r)
            ELSE FindI2(i + 1, i0, i1, best, minRadius)

\* lines 209-223: the error of the seed search, or the seed triangle with
\* i1 and i2 swapped when its area is negative
SeedOriented(i0, i1, f) ==
    IF f.err # "" THEN [err |-> f.err, tri |-> <<>>]
    ELSE IF f.r.den = 0
         THEN [err |-> "NoDelaunay", tri |-> <<>>]
    ELSE IF TriArea(Pt(i0), Pt(i1), Pt(f.i2)) < 0
         THEN [err |-> "", tri |-> <<i0, f.i2, i1>>]
         ELSE [err |-> "", tri |-> <<i0, i1, f.i2>>]
SeedThird(i0, i1) ==
    SeedOriented(i0, i1,
                 FindI2(0, i0, i1, Undefined, [num |-> 1, den |-> 0]))
SeedSecond(i0) == SeedThird(i0, FindI1(0, i0, Undefined, 0 - 1))
\* lines 171-223: the seed triangle, oriented, or the error raised
SeedOf == SeedSecond(FindI0(0, BoxCenter2, Undefined, 0 - 1))

\* ---------------------------------------------------- constructor: sort
\* distance2(p, center) multiplied by center.d^2
CDist(c, p) ==
    LET dx == p[1] * c.d - c.x
        dy == p[2] * c.d - c.y
    IN dx * dx + dy * dy

\* lines 316-321: (d1 - d2) || (a.x - b.x) || (a.y - b.y), up to the
\* positive factor center.d^2 on the first term
compare(a, b, c) ==
    LET dd == CDist(c, a) - CDist(c, b)
    IN IF dd # 0 THEN dd
       ELSE IF a[1] - b[1] # 0 THEN a[1] - b[1]
       ELSE a[2] - b[2]

\* lines 331-332: the index the inner while loop stops at, the first j from
\* i - 1 downwards with j < left or ids[j] not greater than temp
StopAt(arr, j, left, temp, c) ==
    CHOOSE s \in (left - 1)..j :
        /\ s < left \/ compare(Pt(arr[s]), Pt(temp), c) <= 0
        /\ \A x \in (s + 1)..j : compare(Pt(arr[x]), Pt(temp), c) > 0
\* lines 332-334: every element the loop passed has moved up by one and
\* temp is stored above the index s the loop stopped at
ShiftFrom(arr, s, j, temp) ==
    [x \in DOMAIN arr |->
        IF x = s + 1 THEN temp
        ELSE IF x \in (s + 2)..(j + 1) THEN arr[x - 1]
        ELSE arr[x]]
\* lines 331-334: the inner while loop and the final store
ShiftDown(arr, j, left, temp, c) ==
    ShiftFrom(arr, StopAt(arr, j, left, temp, c), j, temp)

\* lines 328-335: the insertion sort of ids[left..right]
RECURSIVE InsertionSort(_, _, _, _, _)
InsertionSort(arr, i, left, right, c) ==
    IF i > right THEN arr
    ELSE InsertionSort(ShiftDown(arr, i - 1, left, arr[i], c),
                       i + 1, left, right, c)

\* utils.ts swap
swap(arr, i, j) == Put(Put(arr, i, Get(arr, j)), j, Get(arr, i))

\* line 327: ranges with right - left at most this are insertion sorted
InsertionLimit == 20

\* lines 338-348: the median goes to left + 1, then ids[left], ids[left + 1]
\* and ids[right] are put in order
medianThird(a, left, right, i, c) ==
    IF compare(Pt(a[left]), Pt(a[i]), c) > 0 THEN swap(a, left, i) ELSE a
medianSecond(a, left, right, i, c) ==
    medianThird(IF compare(Pt(a[i]), Pt(a[right]), c) > 0
                THEN swap(a, i, right) ELSE a,
                left, right, i, c)
medianFirst(a, left, right, i, c) ==
    medianSecond(IF compare(Pt(a[left]), Pt(a[right]), c) > 0
                 THEN swap(a, left, right) ELSE a,
                 left, right, i, c)
medianOfThree(arr, left, right, c) ==
    medianFirst(swap(arr, (left + right) \div 2, left + 1),
                left, right, left + 1, c)

\* lines 352-354: do i++ while ids[i] < temp; a read outside ids gives
\* undefined, points[undefined] is undefined and compare raises a TypeError
\* on it (the result Undefined)
RECURSIVE scanUp(_, _, _, _)
scanUp(arr, i, temp, c) ==
    IF Get(arr, i + 1) = Undefined THEN Undefined
    ELSE IF compare(Pt(arr[i + 1]), Pt(temp), c) < 0
         THEN scanUp(arr, i + 1, temp, c)
         ELSE i + 1
\* lines 355-357: do j-- while ids[j] > temp
RECURSIVE scanDown(_, _, _, _)
scanDown(arr, j, temp, c) ==
    IF Get(arr, j - 1) = Undefined THEN Undefined
    ELSE IF compare(Pt(arr[j - 1]), Pt(temp), c) > 0
         THEN scanDown(arr, j - 1, temp, c)
         ELSE j - 1

\* lines 351-362: the partition loop
RECURSIVE partition(_, _, _, _, _)
partitionSwap(arr, i, j, temp, c) ==
    IF j = Undefined THEN [arr |-> arr, i |-> i, j |-> j, err |-> "TypeError"]
    ELSE IF j < i THEN [arr |-> arr, i |-> i, j |-> j, err |-> ""]
    ELSE partition(swap(arr, i, j), i, j, temp, c)
partitionDown(arr, i, j, temp, c) ==
    IF i = Undefined THEN [arr |-> arr, i |-> i, j |-> j, err |-> "TypeError"]
    ELSE partitionSwap(arr, i, scanDown(arr, j, temp, c), temp, c)
partition(arr, i, j, temp, c) ==
    partitionDown(arr, scanUp(arr, i, temp, c), j, temp, c)

\* lines 323-375 on [arr, err]: err is the error raised, "" for none
RECURSIVE sortRange(_, _, _, _)
sortSecond(st, left, right, c) ==
    IF st.err # "" THEN st ELSE sortRange(st, left, right, c)
\* lines 366-372: the larger part is sorted first
sortParts(st, left, right, i, j, c) ==
    IF right - i + 1 >= j - left
    THEN sortSecond(sortRange(st, i, right, c), left, j - 1, c)
    ELSE sortSecond(sortRange(st, left, j - 1, c), i, right, c)
\* a partition that forgets to store the pivot at its place
placePivotLost(p, left, right, temp, c) ==
    IF p.err # "" THEN [arr |-> p.arr, err |-> p.err]
    ELSE sortParts([arr |-> Put(p.arr, left + 1, Get(p.arr, p.j)),
                    err |-> ""],
                   left, right, p.i, p.j, c)

\* lines 363-372: the pivot goes to ids[j], then the two parts are sorted
placePivot(p, left, right, temp, c) ==
    IF p.err # "" THEN [arr |-> p.arr, err |-> p.err]
    ELSE sortParts([arr |-> Put(Put(p.arr, left + 1, Get(p.arr, p.j)),
                                p.j, temp),
                    err |-> ""],
                   left, right, p.i, p.j, c)
\* lines 336-373: the branch of the ranges of more than 21 elements
quickFrom(a, left, right, c) ==
    placePivot(partition(a, left + 1, right, a[left + 1], c),
               left, right, a[left + 1], c)
quick(arr, left, right, c) ==
    quickFrom(medianOfThree(arr, left, right, c), left, right, c)
sortRange(st, left, right, c) ==
    IF right - left <= InsertionLimit
    THEN [arr |-> InsertionSort(st.arr, left + 1, left, right, c),
          err |-> ""]
    ELSE quick(st.arr, left, right, c)

\* lines 323-375: sort(left, right); the ids it leaves
sort(arr, left, right, c) ==
    sortRange([arr |-> arr, err |-> ""], left, right, c).arr

\* ------------------------------------------------- hash, nodes, buffers
\* line 229: Math.ceil(Math.sqrt(n))
RECURSIVE CeilSqrt(_, _)
CeilSqrt(n, h) == IF h * h >= n THEN h ELSE CeilSqrt(n, h + 1)
HashSizeOf(n) == CeilSqrt(n, 0)

\* key of the bucket written for a point at the centre itself (NaN)
NaNKey == 0 - 5

\* lines 377-382
hashKey(c, hs, p) ==
    LET dx == p[1] * c.d - c.x
        dy == p[2] * c.d - c.y
        s == Abs(dx) + Abs(dy)
    IN IF s = 0 THEN NaNKey
       ELSE IF dy < 0
            THEN ((2 * s - (s - dx)) * hs) \div (4 * s)
            ELSE ((2 * s + (s - dx)) * hs) \div (4 * s)

\* the machine state the insertion helpers work on; hullFlip and ringBroken
\* are no fields of the program: hullFlip records that legalize flipped an
\* edge whose opposite slot is the sentinel -1, ringBroken that the loop's
\* insertNode or a removeNode left the live nodes in something other than
\* one ring of three or more nodes that holds this.hull
MState(tr, he, len, nd, hl, hs, e) ==
    [tri |-> tr, he |-> he, len |-> len, nodes |-> nd, hull |-> hl,
     hash |-> hs, err |-> e, hullFlip |-> FALSE, ringBroken |-> FALSE]

\* lines 384-386; writing bucket hashSize grows the array by one, which is
\* why the table is a function over 0..hashSize and NaNKey
hashEdge(m, c, hs, e) ==
    [m EXCEPT !.hash = [@ EXCEPT ![hashKey(c, hs, Pt(m.nodes[e].i))] = e]]

\* lines 388-393
link(he, a, b) ==
    LET h1 == Put(he, a, b)
    IN IF b # 0 - 1 THEN Put(h1, b, a) ELSE h1

\* addTriangle without the advance of trianglesLength
addTriangleNoAdvance(m, i0, i1, i2, a, b, c) ==
    LET t == m.len
        tr == Put(Put(Put(m.tri, t, i0), t + 1, i1), t + 2, i2)
        he == link(link(link(m.he, t, a), t + 1, b), t + 2, c)
    IN [m EXCEPT !.tri = tr, !.he = he]

\* lines 433-443
addTriangle(m, i0, i1, i2, a, b, c) ==
    LET t == m.len
        tr == Put(Put(Put(m.tri, t, i0), t + 1, i1), t + 2, i2)
        he == link(link(link(m.he, t, a), t + 1, b), t + 2, c)
    IN [m EXCEPT !.tri = tr, !.he = he, !.len = t + 3]

\* lines 445-465: the new node gets the next id, Len(nodes) + 1
insertNode(m, i, prev) ==
    LET id == Len(m.nodes) + 1
    IN IF prev = 0
       THEN [m EXCEPT !.nodes = Append(@,
                [i |-> i, t |-> 0, prev |-> id, next |-> id,
                 removed |-> FALSE])]
       ELSE LET nx == m.nodes[prev].next
                n1 == Append(m.nodes,
                        [i |-> i, t |-> 0, prev |-> prev, next |-> nx,
                         removed |-> FALSE])
                n2 == [n1 EXCEPT ![nx].prev = id]
                n3 == [n2 EXCEPT ![prev].next = id]
            IN [m EXCEPT !.nodes = n3]

\* a removal that forgets to relink the node after the removed one
removeNodeOneWay(m, nd) ==
    LET p == m.nodes[nd].prev
        n == m.nodes[nd].next
        n1 == [m.nodes EXCEPT ![p].next = n]
        n3 == [n1 EXCEPT ![nd].removed = TRUE]
    IN [m EXCEPT !.nodes = n3, !.hull = p]

\* lines 467-472: unlinks the node; the caller stores node.prev in hull
removeNode(m, nd) ==
    LET p == m.nodes[nd].prev
        n == m.nodes[nd].next
        n1 == [m.nodes EXCEPT ![p].next = n]
        n2 == [n1 EXCEPT ![n].prev = p]
        n3 == [n2 EXCEPT ![nd].removed = TRUE]
    IN [m EXCEPT !.nodes = n3, !.hull = p]

SetT(m, nd, t) == [m EXCEPT !.nodes = [@ EXCEPT ![nd].t = t]]

\* the nodes met from hl along next until hl comes round again (or more
\* steps were made than there are nodes)
RECURSIVE RingFrom(_, _, _, _)
RingFrom(ns, hl, nd, acc) ==
    IF Len(acc) > Len(ns) THEN acc
    ELSE LET nx == ns[nd].next
         IN IF nx = hl THEN Append(acc, nd)
            ELSE RingFrom(ns, hl, nx, Append(acc, nd))
\* lines 445-472: the nodes that are not removed are one circular doubly
\* linked ring of three or more nodes, and hl is one of them
Ring(ns, hl) ==
    LET live == {nd \in 1..Len(ns) : ~ns[nd].removed}
        cyc == RingFrom(ns, hl, hl, <<>>)
    IN /\ hl \in live
       /\ Cardinality(live) >= 3
       /\ Len(cyc) = Cardinality(live)
       /\ {cyc[j] : j \in 1..Len(cyc)} = live
       /\ \A nd \in live :
              /\ ns[nd].next \in live
              /\ ns[nd].prev \in live
              /\ ns[ns[nd].next].prev = nd
              /\ ns[ns[nd].prev].next = nd
\* the ring as the call of insertNode or removeNode of the loop left it
Ringed(m) == [m EXCEPT !.ringBroken = @ \/ ~Ring(m.nodes, m.hull)]

\* lines 228-245: buffers, the three seed nodes and the seed triangle
SeedState(s, c) ==
    LET n == N
        hs == HashSizeOf(n)
        maxTriangles == 2 * n - 5
        m0 == MState([x \in 0..(maxTriangles * 3 - 1) |-> 0],
                     [x \in 0..(maxTriangles * 3 - 1) |-> 0],
                     0, <<>>, 0,
                     [x \in (0..hs) \cup {NaNKey} |-> 0], "")
        m1 == SetT(hashEdge([insertNode(m0, s[1], 0) EXCEPT !.hull = 1],
                            c, hs, 1), 1, 0)
        m2 == SetT(hashEdge(insertNode(m1, s[2], 1), c, hs, 2), 2, 1)
        m3 == SetT(hashEdge(insertNode(m2, s[3], 2), c, hs, 3), 3, 2)
    IN addTriangle(m3, s[1], s[2], s[3], 0 - 1, 0 - 1, 0 - 1)

\* ------------------------------------------------------------- legalize
Fail(m, e) == [m EXCEPT !.err = e]

\* lines 410-414: the operands of the in-circle test; an undefined point
\* makes the property reads of circumcircleContains raise a TypeError
PointAt(i) == IF i \in 0..(N - 1) THEN Pt(i) ELSE <<>>

\* a flip that takes three new slots of the buffer for its result
flipEdgeAllocates(m, a, b, ar, bl, p0, p1) ==
    LET tr == Put(Put(m.tri, a, p1), b, p0)
        h1 == link(m.he, a, Get(m.he, bl))
        h2 == link(h1, b, Get(h1, ar))
        h3 == link(h2, ar, bl)
    IN [m EXCEPT !.tri = tr, !.he = h3, !.len = @ + 3,
                 !.hullFlip = @ \/ (b = 0 - 1)]

\* lines 416-422: the flip of the edge a/b
flipEdge(m, a, b, ar, bl, p0, p1) ==
    LET tr == Put(Put(m.tri, a, p1), b, p0)
        h1 == link(m.he, a, Get(m.he, bl))
        h2 == link(h1, b, Get(h1, ar))
        h3 == link(h2, ar, bl)
    IN [m EXCEPT !.tri = tr, !.he = h3, !.hullFlip = @ \/ (b = 0 - 1)]

\* lines 395-431; depth is the number of legalize frames on the call stack,
\* a recursion deeper than MaxStack ends in the engine's RangeError
RECURSIVE legalize(_, _, _)
\* lines 426-427: legalize(br) once legalize(a) has returned
legalizeRight(r1, br, depth) ==
    IF r1.m.err # "" THEN r1 ELSE legalize(r1.m, br, depth + 1)
\* lines 410-430: the in-circle test and the flip
legalizeTest(m, a, b, ar, bl, br, p0, pr, pl, p1, depth) ==
    IF \E i \in {p0, pr, pl, p1} : PointAt(i) = <<>>
    THEN [m |-> Fail(m, "TypeError"), ret |-> Undefined]
    ELSE IF circumcircleContains(Pt(p0), Pt(pr), Pt(pl), Pt(p1))
         THEN legalizeRight(legalize(flipEdge(m, a, b, ar, bl, p0, p1),
                                     a, depth + 1),
                            br, depth)
         ELSE [m |-> m, ret |-> ar]
\* lines 396-408: the slots and vertices around the edge a/b
legalizeSlots(m, a, b, a0, b0, depth) ==
    legalizeTest(m, a, b,
                 a0 + JsMod(a + 2, 3),
                 b0 + JsMod(b + 2, 3),
                 b0 + JsMod(b + 1, 3),
                 Get(m.tri, a0 + JsMod(a + 2, 3)),
                 Get(m.tri, a),
                 Get(m.tri, a0 + JsMod(a + 1, 3)),
                 IF b = Undefined THEN Undefined
                 ELSE Get(m.tri, b0 + JsMod(b + 2, 3)),
                 depth)
legalizeEdge(m, a, b, depth) ==
    legalizeSlots(m, a, b, a - JsMod(a, 3), b - JsMod(b, 3), depth)
legalize(m, a, depth) ==
    IF depth > MaxStack
    THEN [m |-> Fail(m, "StackOverflow"), ret |-> Undefined]
    ELSE legalizeEdge(m, a, Get(m.he, a), depth)

\* ------------------------------------------------ insertion of one point
Live(m, nd) == nd # 0 /\ ~m.nodes[nd].removed

\* lines 261-267: the probe; 0 is a null bucket, "hang" a loop that never
\* leaves (no live bucket on the probe cycle and key never equals startKey)
RECURSIVE probe(_, _, _, _, _)
\* a lookup that reads the point's own bucket and never moves on
probeOwnBucket(m, hs, startKey, key, cnt) ==
    [start |-> m.hash[key], hang |-> FALSE]

probe(m, hs, startKey, key, cnt) ==
    LET start == m.hash[key]
        nxt == IF key = NaNKey THEN NaNKey ELSE (key + 1) % hs
    IN IF Live(m, start) \/ (nxt = startKey /\ nxt # NaNKey)
       THEN [start |-> start, hang |-> FALSE]
       ELSE IF cnt > hs THEN [start |-> 0, hang |-> TRUE]
       ELSE probe(m, hs, startKey, nxt, cnt + 1)

\* lines 269-275: the walk to a visible edge; a walk of more steps than
\* there are nodes is in a cycle that does not hold start
RECURSIVE walk(_, _, _, _, _)
\* a walk that also stops at an edge the point is collinear with
RECURSIVE walkStrict(_, _, _, _, _)
walkStrict(m, p, start, e, cnt) ==
    IF TriArea(p, Pt(m.nodes[e].i), Pt(m.nodes[m.nodes[e].next].i)) > 0
    THEN LET nx == m.nodes[e].next
         IN IF nx = start THEN [e |-> 0, err |-> "InvalidInput"]
            ELSE IF cnt > Len(m.nodes) THEN [e |-> 0, err |-> "Hang"]
            ELSE walkStrict(m, p, start, nx, cnt + 1)
    ELSE [e |-> e, err |-> ""]

walk(m, p, start, e, cnt) ==
    IF TriArea(p, Pt(m.nodes[e].i), Pt(m.nodes[m.nodes[e].next].i)) >= 0
    THEN LET nx == m.nodes[e].next
         IN IF nx = start THEN [e |-> 0, err |-> "InvalidInput"]
            ELSE IF cnt > Len(m.nodes) THEN [e |-> 0, err |-> "Hang"]
            ELSE walk(m, p, start, nx, cnt + 1)
    ELSE [e |-> e, err |-> ""]

\* lines 285-287: the node before the located one takes slot t + 2 when its
\* slot became the opposite of t + 1
attachFixPrev(m, t, pp) ==
    IF m.nodes[pp].t = Get(m.he, t + 1) THEN SetT(m, pp, t + 2) ELSE m
\* line 284: e.t = legalize(t + 2), ne is the node of the new point
attachLegalized(r, t, ne, pp) ==
    IF r.m.err # "" THEN r.m
    ELSE attachFixPrev(SetT(r.m, ne, r.ret), t, pp)
\* lines 279-287: attach the triangle (e, p, e.next), insert the node of p
\* after e (it gets the id Len(nodes) + 1), legalize
attach(m, i, e) ==
    attachLegalized(
        legalize(Ringed(insertNode(SetT(addTriangle(m, m.nodes[e].i, i,
                                             m.nodes[m.nodes[e].next].i,
                                             0 - 1, 0 - 1, m.nodes[e].t),
                                        e, m.len),
                                   i, e)),
                 m.len + 2, 1),
        m.len, Len(m.nodes) + 1, m.nodes[e].prev)

\* lines 289-295
RECURSIVE foldForward(_, _, _)
foldForwardNext(m, i, q) == foldForward(m, i, m.nodes[q].next)
foldForwardLegalized(r, i, q, pv) ==
    IF r.m.err # "" THEN r.m
    ELSE foldForwardNext(Ringed(removeNode(SetT(r.m, pv, r.ret), q)), i, q)
\* a forward step that never folds
foldForwardStepNever(m, i, q, nq) ==
    m

\* a forward step that also folds an edge the point is collinear with
foldForwardStepNonPositive(m, i, q, nq) ==
    IF TriArea(Pt(i), Pt(nq.i), Pt(m.nodes[nq.next].i)) <= 0
    THEN foldForwardLegalized(
             legalize(addTriangle(m, nq.i, i, m.nodes[nq.next].i,
                                  m.nodes[nq.prev].t, 0 - 1, nq.t),
                      m.len + 2, 1),
             i, q, nq.prev)
    ELSE m

foldForwardStep(m, i, q, nq) ==
    IF TriArea(Pt(i), Pt(nq.i), Pt(m.nodes[nq.next].i)) < 0
    THEN foldForwardLegalized(
             legalize(addTriangle(m, nq.i, i, m.nodes[nq.next].i,
                                  m.nodes[nq.prev].t, 0 - 1, nq.t),
                      m.len + 2, 1),
             i, q, nq.prev)
    ELSE m
foldForward(m, i, q) == foldForwardStep(m, i, q, m.nodes[q])

\* lines 297-306
RECURSIVE foldBackward(_, _, _)
foldBackwardNext(m, i, q) == foldBackward(m, i, m.nodes[q].prev)
foldBackwardLegalized(r, i, q, pv, t) ==
    IF r.m.err # "" THEN r.m
    ELSE foldBackwardNext(Ringed(removeNode(SetT(r.m, pv, t), q)), i, q)
foldBackwardStep(m, i, q, nq) ==
    IF TriArea(Pt(i), Pt(m.nodes[nq.prev].i), Pt(nq.i)) < 0
    THEN foldBackwardLegalized(
             legalize(addTriangle(m, m.nodes[nq.prev].i, i, nq.i,
                                  0 - 1, nq.t, m.nodes[nq.prev].t),
                      m.len + 2, 1),
             i, q, nq.prev, m.len)
    ELSE m
foldBackward(m, i, q) == foldBackwardStep(m, i, q, m.nodes[q])

\* lines 308-309
rehash(m, c, hs, ne) ==
    IF m.err # "" THEN m
    ELSE hashEdge(hashEdge(m, c, hs, ne), c, hs, m.nodes[ne].prev)
\* lines 297-306: only when the located edge is the start node's
insertBackward(m, c, hs, i, ne, walkBack) ==
    IF m.err # "" THEN m
    ELSE rehash(IF walkBack THEN foldBackward(m, i, m.nodes[ne].prev)
                ELSE m,
                c, hs, ne)
\* lines 289-295
insertForward(m, c, hs, i, ne, walkBack) ==
    IF m.err # "" THEN m
    ELSE insertBackward(foldForward(m, i, m.nodes[ne].next),
                        c, hs, i, ne, walkBack)
\* lines 277-287; ne is the id the node of the new point gets
insertAt(m, c, hs, i, start, w) ==
    IF w.err # "" THEN Fail(m, w.err)
    ELSE insertForward(attach(m, i, w.e), c, hs, i, Len(m.nodes) + 1,
                       w.e = start)
\* lines 269-275: e = start, reading e.p of a null start is a TypeError
insertFrom(m, c, hs, i, pr) ==
    IF pr.hang THEN Fail(m, "Hang")
    ELSE IF pr.start = 0 THEN Fail(m, "TypeError")
    ELSE insertAt(m, c, hs, i, pr.start,
                  walk(m, Pt(i), pr.start, pr.start, 0))
insertProbe(m, c, hs, i, startKey) ==
    insertFrom(m, c, hs, i, probe(m, hs, startKey, startKey, 0))
\* lines 261-309: the body of the loop for a point that is not skipped
insertPoint(m, c, hs, i) == insertProbe(m, c, hs, i, hashKey(c, hs, Pt(i)))

\* a loop that skips near-duplicates only and forgets the seed points
skippedPrevOnly(i) ==
    prevPt = Pt(i)

\* lines 251-259: the point is skipped
skipped(i) ==
    \/ prevPt = Pt(i)
    \/ \E j \in 1..3 : Pt(i) = Pt(seed[j])

\* ---------------------------------------------------------------- actions
Inputs == UNION {[1..n -> Grid] : n \in 0..MaxPoints}

Init ==
    /\ points \in Inputs
    /\ pc = "new"
    /\ err = ""
    /\ seed = <<>>
    /\ center = [x |-> 0, y |-> 0, d |-> 1]
    /\ ids = <<>>
    /\ k = 0
    /\ prevPt = <<>>
    /\ hashTab = <<>>
    /\ triangles = <<>>
    /\ halfEdges = <<>>
    /\ trianglesLength = 0
    /\ nodes = <<>>
    /\ hull = 0
    /\ inserted = {}
    /\ out = <<>>
    /\ prior = <<>>
    /\ args = <<>>
    /\ ret = <<>>

Current == MState(triangles, halfEdges, trianglesLength, nodes, hull,
                  hashTab, "")

Store(m) ==
    /\ triangles' = m.tri
    /\ halfEdges' = m.he
    /\ trianglesLength' = m.len
    /\ nodes' = m.nodes
    /\ hull' = m.hull
    /\ hashTab' = m.hash

\* lines 225-245: the centre, the sort, the buffers and the seed hull
ConstructSeeded(s, c) ==
    /\ seed' = s
    /\ center' = c
    /\ ids' = sort([x \in 0..(N - 1) |-> x], 0, N - 1, c)
    /\ Store(SeedState(s, c))
    /\ inserted' = {s[1], s[2], s[3]}
    /\ pc' = "insert"
    /\ err' = err
ConstructSeed(s) ==
    ConstructSeeded(s, circumcenter(Pt(s[1]), Pt(s[2]), Pt(s[3])))
ConstructFrom(so) ==
    IF so.err # ""
    THEN /\ pc' = "failed"
         /\ err' = so.err
         /\ UNCHANGED <<seed, center, ids, hashTab, triangles, halfEdges,
                        trianglesLength, nodes, hull, inserted>>
    ELSE ConstructSeed(so.tri)
\* a seed search that takes any of the points closest to the centre of the
\* bounding box, not the first of them
ConstructAnyClosest ==
    /\ pc = "new"
    /\ IF N = 0 THEN ConstructFrom(SeedOf)
       ELSE \E i0 \in 0..(N - 1) :
               /\ \A j \in 0..(N - 1) :
                     CenterDist4(BoxCenter2, Pt(i0))
                        <= CenterDist4(BoxCenter2, Pt(j))
               /\ ConstructFrom(SeedSecond(i0))
    /\ UNCHANGED <<points, k, prevPt, out, prior,
                   args, ret>>

\* lines 152-245: seed, sort, allocation, seed hull and seed triangle, or
\* the error of the seed search
Construct ==
    /\ pc = "new"
    /\ ConstructFrom(SeedOf)
    /\ UNCHANGED <<points, k, prevPt, out, prior,
                   args, ret>>

\* lines 247-259: one iteration that skips a duplicate or a seed vertex
SkipPoint ==
    /\ pc = "insert"
    /\ k < N
    /\ skipped(ids[k])
    /\ k' = k + 1
    /\ prevPt' = Pt(ids[k])
    /\ UNCHANGED <<points, pc, err, seed, center, ids, hashTab, triangles,
                   halfEdges, trianglesLength, nodes, hull, inserted, out, prior,
                   args, ret>>

\* the outcome of the loop body: the exception, or the next iteration
InsertResult(m) ==
    IF m.err # ""
    THEN /\ pc' = "failed"
         /\ err' = m.err
         /\ UNCHANGED <<k, prevPt, hashTab, triangles, halfEdges,
                        trianglesLength, nodes, hull, inserted>>
    ELSE /\ Store(m)
         /\ k' = k + 1
         /\ prevPt' = Pt(ids[k])
         /\ inserted' = inserted \cup {ids[k]}
         /\ UNCHANGED <<pc, err>>
\* lines 247-310: one iteration that inserts a point, or throws
InsertPoint ==
    /\ pc = "insert"
    /\ k < N
    /\ ~skipped(ids[k])
    /\ InsertResult(insertPoint(Current, center, HashSizeOf(N), ids[k]))
    /\ UNCHANGED <<points, seed, center, ids, out, prior,
                   args, ret>>

Min(a, b) == IF a < b THEN a ELSE b

\* a constructor that exposes the buffers as allocated
TrimNone ==
    /\ pc = "insert"
    /\ k = N
    /\ pc' = "trimmed"
    /\ UNCHANGED <<points, err, seed, center, ids, k, prevPt, hashTab,
                   triangles, halfEdges, trianglesLength, nodes, hull,
                   inserted, out, prior,
                   args, ret>>

\* lines 312-313: subarray(0, trianglesLength)
Trim ==
    /\ pc = "insert"
    /\ k = N
    /\ LET len == Min(trianglesLength, 3 * (2 * N - 5))
       IN /\ triangles' = [x \in 0..(len - 1) |-> triangles[x]]
          /\ halfEdges' = [x \in 0..(len - 1) |-> halfEdges[x]]
    /\ pc' = "trimmed"
    /\ UNCHANGED <<points, err, seed, center, ids, k, prevPt, hashTab,
                   trianglesLength, nodes, hull, inserted, out, prior,
                   args, ret>>

\* lines 475-487: delaunayTriangulate builds the Triangle list
Assemble ==
    /\ pc = "trimmed"
    /\ LET cnt == (Cardinality(DOMAIN triangles) + 2) \div 3
       IN out' = [j \in 1..cnt |->
                    <<PointAt(Get(triangles, 3 * (j - 1))),
                      PointAt(Get(triangles, 3 * (j - 1) + 1)),
                      PointAt(Get(triangles, 3 * (j - 1) + 2))>>]
    /\ pc' = "done"
    /\ UNCHANGED <<points, err, seed, center, ids, k, prevPt, hashTab,
                   triangles, halfEdges, trianglesLength, nodes, hull,
                   inserted, prior, args, ret>>

Next == Construct \/ SkipPoint \/ InsertPoint \/ Trim \/ Assemble

Spec == Init /\ [][Next]_vars

\* ------------------------------------ a second call on the same input
\* the outcome of a call: how it ended, the error, the list returned
Outcome == <<pc, err, out>>
Ended == pc \in {"done", "failed"}

\* lines 475-487: delaunayTriangulate is called once more with the same
\* points; it builds a new DelaunayTriangulator, the outcome of the call
\* before is kept for comparison
Rerun ==
    /\ Ended
    /\ prior = <<>>
    /\ prior' = <<Outcome>>
    /\ pc' = "new"
    /\ err' = ""
    /\ seed' = <<>>
    /\ center' = [x |-> 0, y |-> 0, d |-> 1]
    /\ ids' = <<>>
    /\ k' = 0
    /\ prevPt' = <<>>
    /\ hashTab' = <<>>
    /\ triangles' = <<>>
    /\ halfEdges' = <<>>
    /\ trianglesLength' = 0
    /\ nodes' = <<>>
    /\ hull' = 0
    /\ inserted' = {}
    /\ out' = <<>>
    /\ UNCHANGED <<points, args, ret>>

NextTwice == Next \/ Rerun

SpecTwice == Init /\ [][NextTwice]_vars

\* --------------------------------------- calls of one function on its own
\* no triangulator exists while a single function is called
machine == <<points, pc, err, seed, center, ids, k, prevPt, hashTab,
             triangles, halfEdges, trianglesLength, nodes, hull, inserted,
             out, prior>>
NoMachine ==
    /\ points = <<>>
    /\ pc = "new"
    /\ err = ""
    /\ seed = <<>>
    /\ center = [x |-> 0, y |-> 0, d |-> 1]
    /\ ids = <<>>
    /\ k = 0
    /\ prevPt = <<>>
    /\ hashTab = <<>>
    /\ triangles = <<>>
    /\ halfEdges = <<>>
    /\ trianglesLength = 0
    /\ nodes = <<>>
    /\ hull = 0
    /\ inserted = {}
    /\ out = <<>>
    /\ prior = <<>>

\* geometry.ts lines 76-91: new Triangle(p0, p1, p2).circumcircleContains(q)
\* for every choice of the four points
InitContains ==
    /\ NoMachine
    /\ args \in Grid \X Grid \X Grid \X Grid
    /\ ret = <<>>
CallContains ==
    /\ ret = <<>>
    /\ ret' = <<circumcircleContains(args[1], args[2], args[3], args[4])>>
    /\ UNCHANGED <<args, machine>>
SpecContains == InitContains /\ [][CallContains]_vars

\* -------------------------------------- a second family of inputs, Spec2
\* Point sets of up to MaxPoints2 points over 0..MaxCoord2, each listed in
\* lexicographic order.
MaxCoord2 == 3
MaxPoints2 == 5

Grid2 == (0..MaxCoord2) \X (0..MaxCoord2)
LexLess(p, q) == p[1] < q[1] \/ (p[1] = q[1] /\ p[2] < q[2])
RECURSIVE AscendingFrom(_, _)
AscendingFrom(n, cands) ==
    IF n = 0 THEN {<<>>}
    ELSE UNION {{<<p>> \o t :
                   t \in AscendingFrom(n - 1, {g \in cands : LexLess(p, g)})}
                : p \in cands}
\* the point sets of 3 to maxN points of grid
InputsOver(grid, maxN) == UNION {AscendingFrom(n, grid) : n \in 3..maxN}

Init2 ==
    /\ points \in InputsOver(Grid2, MaxPoints2)
    /\ pc = "new"
    /\ err = ""
    /\ seed = <<>>
    /\ center = [x |-> 0, y |-> 0, d |-> 1]
    /\ ids = <<>>
    /\ k = 0
    /\ prevPt = <<>>
    /\ hashTab = <<>>
    /\ triangles = <<>>
    /\ halfEdges = <<>>
    /\ trianglesLength = 0
    /\ nodes = <<>>
    /\ hull = 0
    /\ inserted = {}
    /\ out = <<>>
    /\ prior = <<>>
    /\ args = <<>>
    /\ ret = <<>>

Spec2 == Init2 /\ [][Next]_vars

\* --------------------------------------- a third family of inputs, Spec3
\* Point sets of 3 to MaxPoints3 points over 0..MaxCoord3, each listed in
\* lexicographic order.
MaxCoord3 == 2
MaxPoints3 == 5

Grid3 == (0..MaxCoord3) \X (0..MaxCoord3)

Init3 ==
    /\ points \in InputsOver(Grid3, MaxPoints3)
    /\ pc = "new"
    /\ err = ""
    /\ seed = <<>>
    /\ center = [x |-> 0, y |-> 0, d |-> 1]
    /\ ids = <<>>
    /\ k = 0
    /\ prevPt = <<>>
    /\ hashTab = <<>>
    /\ triangles = <<>>
    /\ halfEdges = <<>>
    /\ trianglesLength = 0
    /\ nodes = <<>>
    /\ hull = 0
    /\ inserted = {}
    /\ out = <<>>
    /\ prior = <<>>
    /\ args = <<>>
    /\ ret = <<>>

Spec3 == Init3 /\ [][Next]_vars

\* part_000 lines 377-382: hashKey(p) of a triangulator of n points whose
\* centre is the circumcentre of the seed triangle (a, b, c), for every
\* seed triangle, every n and every p; args = <<a, b, c, n, p>>
InitHashKey ==
    /\ NoMachine
    /\ args \in {x \in Grid3 \X Grid3 \X Grid3 \X (3..MaxPoints3) \X Grid3 :
                    TriArea(x[1], x[2], x[3]) # 0}
    /\ ret = <<>>
CallHashKey ==
    /\ ret = <<>>
    /\ ret' = <<hashKey(circumcenter(args[1], args[2], args[3]),
                        HashSizeOf(args[4]), args[5])>>
    /\ UNCHANGED <<args, machine>>
SpecHashKey == InitHashKey /\ [][CallHashKey]_vars

\* geometry.ts lines 55-58: new Triangle(p0, p1, p2).area for every choice
\* of the three points; args = <<p0, p1, p2>>
InitArea ==
    /\ NoMachine
    /\ args \in Grid3 \X Grid3 \X Grid3
    /\ ret = <<>>
CallArea ==
    /\ ret = <<>>
    /\ ret' = <<TriArea(args[1], args[2], args[3])>>
    /\ UNCHANGED <<args, machine>>
SpecArea == InitArea /\ [][CallArea]_vars

\* geometry.ts lines 39-53 and part_000 lines 197-206: the circumradius of
\* (p0, p1, p2) and the test `r < minRadius` of the seed search, the current
\* minimum being Infinity or the circumradius of an earlier candidate q;
\* args = <<p0, p1, p2, q>>, ret = <<r, r < minRadius>>
InitRadius ==
    /\ NoMachine
    /\ args \in Grid3 \X Grid3 \X Grid3 \X Grid3
    /\ ret = <<>>
CallRadius ==
    /\ ret = <<>>
    /\ ret' = <<circumradius(args[1], args[2], args[3]),
                RadiusLess(circumradius(args[1], args[2], args[3]),
                           circumradius(args[1], args[2], args[4]))>>
    /\ UNCHANGED <<args, machine>>
SpecRadius == InitRadius /\ [][CallRadius]_vars

\* ----------------------------------------------- sort(0, n - 1) on its own
MaxSortLen == 23
\* the point of a key: the keys fill a square of side 5 around (0, 0) row by
\* row, so that keys tie in distance and differ in x or in y
KeyPoint(key) == <<(key % 5) - 2, (key \div 5) - 2>>
\* len points whose keys run through 0..MaxSortLen - 1 with stride a from b
SortPoints(len, a, b) ==
    [i \in 1..len |-> KeyPoint((a * (i - 1) + b) % MaxSortLen)]
\* lines 159-169 and 225: ids holds 0..n-1 in order, the centre is
\* (x / 2, y / 2); the lengths lie on both sides of the insertion limit
InitSort ==
    /\ \E len \in InsertionLimit..MaxSortLen :
          \E a \in 0..(MaxSortLen - 1), b \in 0..(MaxSortLen - 1) :
             /\ points = SortPoints(len, a, b)
             /\ ids = [x \in 0..(len - 1) |-> x]
    /\ center \in {[x |-> cx, y |-> cy, d |-> 2] : cx \in 0..1, cy \in 0..1}
    /\ pc = "new"
    /\ err = ""
    /\ seed = <<>>
    /\ k = 0
    /\ prevPt = <<>>
    /\ hashTab = <<>>
    /\ triangles = <<>>
    /\ halfEdges = <<>>
    /\ trianglesLength = 0
    /\ nodes = <<>>
    /\ hull = 0
    /\ inserted = {}
    /\ out = <<>>
    /\ prior = <<>>
    /\ args = <<>>
    /\ ret = <<>>
\* line 226: this.sort(0, n - 1)
SortOutcome(st) ==
    /\ ids' = st.arr
    /\ err' = st.err
    /\ ret' = <<"returned">>
CallSort ==
    /\ ret = <<>>
    /\ SortOutcome(sortRange([arr |-> ids, err |-> ""], 0, N - 1, center))
    /\ UNCHANGED <<points, pc, seed, center, k, prevPt, hashTab, triangles,
                   halfEdges, trianglesLength, nodes, hull, inserted, out,
                   prior, args>>
SpecSort == InitSort /\ [][CallSort]_vars

\* ------------------------------------------------ vocabulary of the claims
PointSet == {points[i] : i \in 1..N}
\* twice the signed area, positive for counter-clockwise a, b, c (y up)
Orient(a, b, c) ==
    (b[1] - a[1]) * (c[2] - a[2]) - (b[2] - a[2]) * (c[1] - a[1])
AllCollinear == \A a \in PointSet, b \in PointSet, c \in PointSet :
                    Orient(a, b, c) = 0
\* at least 3 distinct points, not all on one line
ValidInput == ~AllCollinear

\* q strictly inside the circle through a, b, c (any orientation of a, b, c)
InCircleStrict(a, b, c, q) ==
    LET ax == a[1] - q[1]
        ay == a[2] - q[2]
        bx == b[1] - q[1]
        by == b[2] - q[2]
        cx == c[1] - q[1]
        cy == c[2] - q[2]
        det == (ax * ax + ay * ay) * (bx * cy - cx * by)
               - (bx * bx + by * by) * (ax * cy - cx * ay)
               + (cx * cx + cy * cy) * (ax * by - bx * ay)
    IN det * Orient(a, b, c) > 0

\* the directed edges of the convex hull of the input, counter-clockwise
HullEdges ==
    {e \in PointSet \X PointSet :
        /\ e[1] # e[2]
        /\ \A p \in PointSet :
              /\ Orient(e[1], e[2], p) >= 0
              /\ Orient(e[1], e[2], p) = 0 =>
                    (p[1] - e[1][1]) * (p[1] - e[2][1])
                    + (p[2] - e[1][2]) * (p[2] - e[2][2]) <= 0}
RECURSIVE SumCross(_)
SumCross(S) ==
    IF S = {} THEN 0
    ELSE LET e == CHOOSE x \in S : TRUE
         IN e[1][1] * e[2][2] - e[1][2] * e[2][1] + SumCross(S \ {e})
\* twice the area of the convex hull of the input
HullArea2 == SumCross(HullEdges)

RECURSIVE OutAreaFrom(_)
OutAreaFrom(j) ==
    IF j > Len(out) THEN 0
    ELSE Abs(TriArea(out[j][1], out[j][2], out[j][3])) + OutAreaFrom(j + 1)
\* twice the sum of the geometric areas of the returned triangles
OutArea2 == OutAreaFrom(1)

\* some line through an edge of t has t and u on opposite closed sides
EdgeSeparates(t, u) ==
    \E i \in 1..3 :
        LET a == t[i]
            b == t[(i % 3) + 1]
            c == t[((i + 1) % 3) + 1]
        IN \A j \in 1..3 : Orient(a, b, u[j]) * Orient(a, b, c) <= 0
\* the interiors of the triangles t and u meet
Overlap(t, u) ==
    /\ Orient(t[1], t[2], t[3]) # 0
    /\ Orient(u[1], u[2], u[3]) # 0
    /\ ~EdgeSeparates(t, u)
    /\ ~EdgeSeparates(u, t)

VertexSet(t) == {t[1], t[2], t[3]}
Done == pc = "done"

\* ------------------------------------------------------------------ claims

\* C1: for every valid input, no input point that is not a vertex of a
\* returned triangle lies strictly inside that triangle's circumcircle.
C1_Delaunay ==
    (Done /\ ValidInput) =>
        \A j \in 1..Len(out) : \A q \in PointSet \ VertexSet(out[j]) :
            ~InCircleStrict(out[j][1], out[j][2], out[j][3], q)

\* C2: for every valid input, the areas of the returned triangles add up to
\* the area of the convex hull of the input points.
C2_Coverage == (Done /\ ValidInput) => OutArea2 = HullArea2

\* C3: for every valid input, no two distinct returned triangles have
\* interiors that meet.
C3_Partition ==
    (Done /\ ValidInput) =>
        \A i \in 1..Len(out), j \in 1..Len(out) :
            i # j => ~Overlap(out[i], out[j])

\* C4: for every valid input (3 distinct points, not all collinear) the
\* triangulation returns normally, no error of any kind is raised.
C4_ReturnsNormally == ValidInput => pc # "failed"

\* C5: every input of 3 or more points that are all collinear is rejected
\* with the "No Delaunay triangulation exists" error, before any triangle is
\* added and before any hull node is created.
C5_CollinearRejected ==
    (N >= 3 /\ AllCollinear /\ pc # "new") =>
        /\ pc = "failed"
        /\ err = "NoDelaunay"
        /\ trianglesLength = 0
        /\ nodes = <<>>

\* C6: every input with fewer than 3 distinct points (empty, one point, two
\* points, any number of copies of one point) is rejected with the "No
\* Delaunay triangulation exists" error, before any triangle is built.
C6_TooFewRejected ==
    (Cardinality(PointSet) < 3 /\ pc # "new") =>
        /\ pc = "failed"
        /\ err = "NoDelaunay"
        /\ trianglesLength = 0

\* C7: a point equal to a seed vertex or to the point before it in sorted
\* order is skipped without touching the triangles or the hull, and an input
\* of exactly 3 distinct non-collinear coordinates plus duplicates of them
\* succeeds with exactly 1 triangle over the 3 distinct points.
C7_SkipStep ==
    (pc = "insert" /\ k < N /\ k' = k + 1 /\
       (\/ (k > 0 /\ Pt(ids[k]) = Pt(ids[k - 1]))
        \/ Pt(ids[k]) \in {Pt(seed[j]) : j \in 1..3})) =>
        /\ triangles' = triangles
        /\ halfEdges' = halfEdges
        /\ trianglesLength' = trianglesLength
        /\ nodes' = nodes
        /\ hull' = hull
        /\ pc' = "insert"
C7_ThreeDistinct ==
    (Cardinality(PointSet) = 3 /\ ValidInput) =>
        /\ pc # "failed"
        /\ pc \in {"insert", "trimmed", "done"} => trianglesLength = 3
        /\ Done => (Len(out) = 1 /\ VertexSet(out[1]) = PointSet)
C7_Duplicates == [][C7_SkipStep]_vars /\ []C7_ThreeDistinct
C7_Witness ==
    /\ Done
    /\ N = 4
    /\ Cardinality(PointSet) = 3
    /\ Len(out) = 1
    /\ VertexSet(out[1]) = PointSet

\* C8: the four corners of the unit square, in any input order, give
\* exactly 2 triangles whose geometric areas add up to 1.0 (twice the area
\* is 2).
UnitSquare == {<<0, 0>>, <<1, 0>>, <<1, 1>>, <<0, 1>>}
IsUnitSquare == N = 4 /\ PointSet = UnitSquare
C8_UnitSquare ==
    IsUnitSquare =>
        /\ pc # "failed"
        /\ Done => (Len(out) = 2 /\ OutArea2 = 2)
C8_Witness == IsUnitSquare /\ Done /\ Len(out) = 2

\* C9: exactly 3 non-collinear points, in any input order, give exactly one
\* triangle whose vertex set is the three input points.
C9_SingleTriangle ==
    (N = 3 /\ ValidInput) =>
        /\ pc # "failed"
        /\ Done => (Len(out) = 1 /\ VertexSet(out[1]) = PointSet)
C9_Witness == N = 3 /\ ValidInput /\ Done /\ Len(out) = 1

\* C10: after every completed insertion step and in the final buffers the
\* half-edge buffer is symmetric: a slot a of a created triangle whose
\* opposite b is not -1 has b among the slots of the created triangles and
\* halfEdges[b] = a.
C10_HalfEdgeSymmetry ==
    pc \in {"insert", "trimmed", "done"} =>
        \A a \in 0..(trianglesLength - 1) :
            LET b == Get(halfEdges, a)
            IN b # 0 - 1 =>
                  (b \in 0..(trianglesLength - 1) /\ Get(halfEdges, b) = a)

\* the number of triangles created so far
TriangleCount == trianglesLength \div 3
\* the three stored vertices of created triangle j (0-based), as points
StoredTriangle(j) ==
    <<PointAt(Get(triangles, 3 * j)), PointAt(Get(triangles, 3 * j + 1)),
      PointAt(Get(triangles, 3 * j + 2))>>
Constructed == pc \in {"insert", "trimmed", "done"}

\* C11: after the seed triangle and after every insertion step, every
\* triangle stored in the triangle buffer has strictly positive signed area
\* (Triangle.area of its three stored vertices is > 0).
C11_PositiveArea ==
    Constructed =>
        \A j \in 0..(TriangleCount - 1) :
            LET t == StoredTriangle(j)
            IN /\ \A v \in 1..3 : t[v] # <<>>
               /\ TriArea(t[1], t[2], t[3]) > 0

\* the hull nodes met from this.hull along next, until the walk is back at
\* this.hull (or has made more steps than there are nodes)
RECURSIVE HullFrom(_, _)
HullFrom(nd, acc) ==
    IF Len(acc) > Len(nodes) THEN acc
    ELSE LET nx == nodes[nd].next
         IN IF nx = hull THEN Append(acc, nd)
            ELSE HullFrom(nx, Append(acc, nd))
HullCycle == HullFrom(hull, <<>>)
LiveNodes == {nd \in 1..Len(nodes) : ~nodes[nd].removed}
\* the point of a hull node
NodePt(nd) == Pt(nodes[nd].i)

\* C12: after every insertion step the live hull nodes, followed in
\* next-order, form a simple closed convex polygon that contains every
\* inserted point: the walk along next from this.hull is a cycle over
\* exactly the live nodes, prev is the inverse of next, no two live nodes
\* carry the same coordinates, and for every live hull edge (n, n.next) and
\* every inserted point q, Triangle(q, n.p, n.next.p).area >= 0.
C12_ConvexHull ==
    pc = "insert" =>
        LET cyc == HullCycle
            on == {cyc[j] : j \in 1..Len(cyc)}
        IN /\ Len(cyc) <= Len(nodes)
           /\ Cardinality(on) = Len(cyc)
           /\ on = LiveNodes
           /\ \A nd \in on : nodes[nodes[nd].next].prev = nd
           /\ \A a \in on, b \in on : a # b => NodePt(a) # NodePt(b)
           /\ \A nd \in on : \A q \in inserted :
                 TriArea(Pt(q), NodePt(nd), NodePt(nodes[nd].next)) >= 0
\* all points are in, one of them was folded out of the hull
C12_Witness ==
    /\ pc = "insert"
    /\ k = N
    /\ Cardinality(inserted) >= 5
    /\ \E nd \in 1..Len(nodes) : nodes[nd].removed
    /\ Cardinality(LiveNodes) >= 4

\* the capacity of the triangle and half-edge buffers, in slots (line 228)
Capacity == 3 * (2 * N - 5)
\* the loop is about to insert a point
AboutToInsert == pc = "insert" /\ k < N /\ ~skipped(ids[k])

\* C13: for n >= 3 input points the number of triangles created never
\* exceeds 2n - 5, neither after a completed step nor at the end of an
\* insertion under way (one that fails included), so addTriangle stays
\* inside the buffers; after construction the exposed buffer has exactly
\* 3 x (triangles created) slots, each holding a valid index into the input.
C13_BufferBound ==
    /\ Constructed => (N >= 3 /\ trianglesLength <= Capacity)
    /\ AboutToInsert =>
          insertPoint(Current, center, HashSizeOf(N), ids[k]).len <= Capacity
    /\ pc \in {"trimmed", "done"} =>
          /\ DOMAIN triangles = 0..(trianglesLength - 1)
          /\ DOMAIN halfEdges = 0..(trianglesLength - 1)
          /\ \A a \in DOMAIN triangles : triangles[a] \in 0..(N - 1)
\* the buffers were trimmed to fewer slots than allocated
C13_Witness ==
    /\ pc = "done"
    /\ N >= 5
    /\ trianglesLength >= 9
    /\ trianglesLength < Capacity
    /\ DOMAIN triangles = 0..(trianglesLength - 1)

\* the point the loop is about to insert, its bucket and the probe's result
NextPt == Pt(ids[k])
NextKey == hashKey(center, HashSizeOf(N), NextPt)
Probed == probe(Current, HashSizeOf(N), NextKey, NextKey, 0)
\* the nodes whose edge the walk of lines 269-275 tests, in order, cut off
\* once there are more of them than nodes
RECURSIVE WalkPath(_, _, _, _)
WalkPath(p, start, e, acc) ==
    IF Len(acc) > Len(nodes) THEN acc
    ELSE IF TriArea(p, NodePt(e), NodePt(nodes[e].next)) >= 0
              /\ nodes[e].next # start
         THEN WalkPath(p, start, nodes[e].next, Append(acc, e))
         ELSE Append(acc, e)
Located == walk(Current, NextPt, Probed.start, Probed.start, 0)
LocatePath == WalkPath(NextPt, Probed.start, Probed.start, <<>>)

\* C14: for every point the loop inserts, the probe yields a live start
\* node and the locate walk tests each live hull node at most once; it ends
\* either at a live hull edge (e, e.next) with Triangle(p, e.p,
\* e.next.p).area < 0 or with the "Invalid input points" error back at its
\* start node, and never runs on without end.
C14_WalkTerminates ==
    AboutToInsert =>
        /\ ~Probed.hang
        /\ Probed.start \in LiveNodes
        /\ Len(LocatePath) <= Cardinality(LiveNodes)
        /\ \A a \in 1..Len(LocatePath) :
              /\ LocatePath[a] \in LiveNodes
              /\ \A b \in 1..Len(LocatePath) :
                    a # b => LocatePath[a] # LocatePath[b]
        /\ Located.err \in {"", "InvalidInput"}
        /\ Located.err = "" =>
              /\ Located.e \in LiveNodes
              /\ TriArea(NextPt, NodePt(Located.e),
                         NodePt(nodes[Located.e].next)) < 0
\* a walk that passed hull edges before it stopped at a visible one
C14_Witness ==
    /\ AboutToInsert
    /\ Located.err = ""
    /\ Len(LocatePath) >= 3
    /\ Located.e = LocatePath[Len(LocatePath)]
    /\ Cardinality(LiveNodes) >= 4

C16_InCircle ==
    (ret # <<>> /\ TriArea(args[1], args[2], args[3]) > 0) =>
        (ret[1] <=> InCircleStrict(args[1], args[2], args[3], args[4]))

\* the insertion the loop is about to make, as the loop body computes it
NextInsertion == insertPoint(Current, center, HashSizeOf(N), ids[k])

\* C17: whenever legalize(a) is invoked, at the top level or recursively, on
\* a slot whose opposite halfEdges[a] is the sentinel -1, no flip is
\* performed and the buffers are left as they are: no insertion contains a
\* flip of an edge whose opposite is -1.
C17_SentinelLegal == AboutToInsert => ~NextInsertion.hullFlip

\* C18: every call of legalize made during construction ends after finitely
\* many flips: no insertion ends in the stack overflow of a recursion that
\* flips without end.
C18_LegalizeTerminates == pc = "failed" => err # "StackOverflow"

\* C19: after the seed and after every completed insertion, every live hull
\* node n has in n.t the boundary half-edge it owns: halfEdges[n.t] = -1
\* and triangles[n.t] = n.i.
C19_HullSlots ==
    pc = "insert" =>
        \A nd \in LiveNodes :
            /\ Get(halfEdges, nodes[nd].t) = 0 - 1
            /\ Get(triangles, nodes[nd].t) = nodes[nd].i

\* the point args[5] is the centre of the call of hashKey
AtCentre ==
    LET c == circumcenter(args[1], args[2], args[3])
    IN args[5][1] * c.d = c.x /\ args[5][2] * c.d = c.y

\* C20: for every point p different from the centre, hashKey(p) is an
\* integer bucket index in [0, hashSize), with hashSize = ceil(sqrt(n)).
C20_KeyInTable ==
    (ret # <<>> /\ ~AtCentre) => ret[1] \in 0..(HashSizeOf(args[4]) - 1)

NewNode == Len(nodes) + 1
\* lines 279-287: the state the forward fold starts from
Attached == attach(Current, ids[k], Located.e)
\* lines 289-295: the state the forward fold ends in
Folded == foldForward(Attached, ids[k], Attached.nodes[NewNode].next)
\* the area the loop test of line 290 computes for the edge (q, q.next)
EdgeArea(m, q) ==
    TriArea(NextPt, Pt(m.nodes[q].i), Pt(m.nodes[m.nodes[q].next].i))
\* the successive edges after the new node, in the ring as attach left it,
\* up to the first one whose area is not below the limit
RECURSIVE EdgesBelow(_, _, _, _)
EdgesBelow(m, q, limit, acc) ==
    IF EdgeArea(m, q) < limit /\ Len(acc) < Len(m.nodes)
    THEN EdgesBelow(m, m.nodes[q].next, limit, Append(acc, q))
    ELSE acc
\* the node the walk of EdgesBelow stopped at
StopAfter(m, run) ==
    IF run = <<>> THEN m.nodes[NewNode].next
    ELSE m.nodes[run[Len(run)]].next
\* the next insertion finds the edge it attaches to
Locates ==
    /\ AboutToInsert
    /\ ~Probed.hang
    /\ Probed.start # 0
    /\ Located.err = ""
\* the forward fold of the next insertion ran to its end
FoldsForward ==
    /\ Locates
    /\ Attached.err = ""
    /\ Folded.err = ""
\* the fold removed exactly the nodes of run, made one triangle for each
\* and left the new node linked to the node after the run
ConsumedExactly(a, f, run) ==
    /\ \A nd \in 1..Len(a.nodes) :
           f.nodes[nd].removed <=>
               (a.nodes[nd].removed \/ \E j \in 1..Len(run) : run[j] = nd)
    /\ f.len = a.len + 3 * Len(run)
    /\ f.nodes[NewNode].next = StopAfter(a, run)
    /\ f.nodes[StopAfter(a, run)].prev = NewNode

\* the fold f of the attached state a consumed the successive edges of area
\* below the limit and stopped at the first edge of area at or above it
FoldedBelow(a, f, limit) ==
    f.err = "" =>
        /\ ConsumedExactly(a, f, EdgesBelow(a, a.nodes[NewNode].next,
                                            limit, <<>>))
        /\ EdgeArea(f, f.nodes[NewNode].next) >= limit
FoldsBelow(a, limit) ==
    a.err = "" =>
        FoldedBelow(a, foldForward(a, ids[k], a.nodes[NewNode].next), limit)

\* C22 as stated: the forward fold consumes every successive edge after the
\* new point whose triangle with it has area <= 0, zero included, and stops
\* only at the first edge whose triangle with the point has positive area
\* (the areas are integers: positive is 1 or more).
C22_FoldNonPositive == Locates => FoldsBelow(Attached, 1)
\* C22 amended: the forward fold consumes every successive edge after the new
\* point whose triangle with it has negative area: one triangle is made and
\* the edge's first node removed for each; it stops at the first edge whose
\* triangle with the point has zero or positive area.
C22_FoldNegative == Locates => FoldsBelow(Attached, 0)
\* a fold that consumed an edge and stopped at one the point is collinear with
C22_Witness ==
    /\ FoldsForward
    /\ EdgesBelow(Attached, Attached.nodes[NewNode].next, 0, <<>>) # <<>>
    /\ Folded.len > Attached.len
    /\ EdgeArea(Folded, Folded.nodes[NewNode].next) = 0

SeedI0 == FindI0(0, BoxCenter2, Undefined, 0 - 1)
SeedI1 == FindI1(0, SeedI0, Undefined, 0 - 1)
Indices == 0..(N - 1)
\* twice the centre of the bounding box of the input
BoxLow(axis) == CHOOSE v \in {Pt(j)[axis] : j \in Indices} :
                    \A j \in Indices : v <= Pt(j)[axis]
BoxHigh(axis) == CHOOSE v \in {Pt(j)[axis] : j \in Indices} :
                     \A j \in Indices : v >= Pt(j)[axis]
\* twice the centre of the bounding box
BoxMiddle2 == <<BoxLow(1) + BoxHigh(1), BoxLow(2) + BoxHigh(2)>>
\* four times the squared distance of point j to the centre c2 / 2
ToBoxCentre4(c2, j) ==
    (c2[1] - 2 * Pt(j)[1]) * (c2[1] - 2 * Pt(j)[1])
    + (c2[2] - 2 * Pt(j)[2]) * (c2[2] - 2 * Pt(j)[2])
\* the squared distance between the points i and j
Apart(i, j) ==
    (Pt(i)[1] - Pt(j)[1]) * (Pt(i)[1] - Pt(j)[1])
    + (Pt(i)[2] - Pt(j)[2]) * (Pt(i)[2] - Pt(j)[2])
\* i0 is the first of the points nearest to the centre c2 / 2
NearestToCentre(c2, i0, d0) ==
    /\ i0 \in Indices
    /\ d0 = ToBoxCentre4(c2, i0)
    /\ \A j \in Indices :
           \/ d0 < ToBoxCentre4(c2, j)
           \/ d0 = ToBoxCentre4(c2, j) /\ i0 <= j
\* i1 is a nearest point to point i0 among those that are no copy of it
NearestApart(i0, i1) ==
    (\E j \in Indices : Apart(i0, j) > 0) =>
        /\ i1 \in Indices \ {i0}
        /\ Apart(i0, i1) > 0
        /\ \A j \in Indices :
               Apart(i0, j) > 0 => Apart(i0, i1) <= Apart(i0, j)
SeedNearest(c2, i0, i1) ==
    /\ NearestToCentre(c2, i0, CenterDist4(c2, Pt(i0)))
    /\ NearestApart(i0, i1)
    /\ pc = "insert" => (seed[1] = i0 /\ i1 \in {seed[2], seed[3]})

\* the constructor has just searched the seed: the loop has not started, or
\* the search raised its error
SeedSearched ==
    \/ pc = "insert" /\ k = 0
    \/ pc = "failed" /\ seed = <<>>

SeedI2 == FindI2(0, SeedI0, SeedI1, Undefined, [num |-> 1, den |-> 0])
\* twice the signed area of the points i, j, l
Cross(i, j, l) ==
    (Pt(j)[1] - Pt(i)[1]) * (Pt(l)[2] - Pt(i)[2])
    - (Pt(j)[2] - Pt(i)[2]) * (Pt(l)[1] - Pt(i)[1])
\* R^2 = (abc)^2 / (4 K)^2 of the triangle i, j, l, as numerator and
\* denominator, the denominator 0 for a degenerate triangle
RadiusSq(i, j, l) ==
    [num |-> Apart(i, j) * Apart(j, l) * Apart(l, i),
     den |-> 4 * Cross(i, j, l) * Cross(i, j, l)]
\* the index l is a third point with a proper triangle over i0 and i1
ProperThird(i0, i1, l) ==
    l \in Indices \ {i0, i1} /\ Cross(i0, i1, l) # 0
\* i2 is a proper third point of the smallest circumradius
SmallestCircle(i0, i1, i2) ==
    /\ ProperThird(i0, i1, i2)
    /\ \A l \in Indices :
           ProperThird(i0, i1, l) =>
               RadiusSq(i0, i1, i2).num * RadiusSq(i0, i1, l).den
                   <= RadiusSq(i0, i1, l).num * RadiusSq(i0, i1, i2).den
SeedSmallest(i0, i1, f) ==
    /\ f.err = ""
    /\ SmallestCircle(i0, i1, f.i2)
    /\ pc = "insert"
    /\ {seed[2], seed[3]} = {i1, f.i2}

\* C25: i2 is an index other than i0 and i1 whose triangle (i0, i1, i2) has
\* the minimum circumradius over the remaining points; a candidate collinear
\* with i0 and i1, or a copy of one of them, is never chosen while a proper
\* candidate exists.
C25_SeedSmallestCircle ==
    (/\ SeedSearched
     /\ SeedI1 \in Indices
     /\ \E l \in Indices : ProperThird(SeedI0, SeedI1, l)) =>
        SeedSmallest(SeedI0, SeedI1, SeedI2)
\* the third seed point comes after a degenerate candidate and there is a
\* proper candidate with a larger circumradius
C25_Witness ==
    /\ pc = "insert"
    /\ k = 0
    /\ SeedI2.i2 \in Indices
    /\ \E l \in Indices \ {SeedI0, SeedI1} :
           l < SeedI2.i2 /\ Cross(SeedI0, SeedI1, l) = 0
    /\ \E l \in Indices :
           /\ ProperThird(SeedI0, SeedI1, l)
           /\ RadiusSq(SeedI0, SeedI1, SeedI2.i2).num
                   * RadiusSq(SeedI0, SeedI1, l).den
                < RadiusSq(SeedI0, SeedI1, l).num
                   * RadiusSq(SeedI0, SeedI1, SeedI2.i2).den

\* the order of the sort: squared distance to the centre ascending, then x,
\* then y; a is not greater than b
NotGreater(a, b) ==
    \/ CDist(center, a) < CDist(center, b)
    \/ /\ CDist(center, a) = CDist(center, b)
       /\ \/ a[1] < b[1]
          \/ a[1] = b[1] /\ a[2] <= b[2]

\* C26: after sort(0, n-1), ids is a permutation of 0..n-1 and every point
\* ids[k] is not greater than the point ids[k+1] under the order (squared
\* distance to the centre, then x, then y), for the insertion branch and for
\* the median-of-three branch, and the sort ends without an error.
C26_Sorted ==
    ret # <<>> =>
        /\ err = ""
        /\ DOMAIN ids = 0..(N - 1)
        /\ {ids[j] : j \in 0..(N - 1)} = 0..(N - 1)
        /\ \A j \in 0..(N - 2) : NotGreater(Pt(ids[j]), Pt(ids[j + 1]))
\* a range of more than 21 elements that was out of order has been sorted
C26_Witness ==
    /\ ret # <<>>
    /\ N > InsertionLimit + 1
    /\ err = ""
    /\ \E j \in 0..(N - 2) : ~NotGreater(Pt(j), Pt(j + 1))
    /\ \A j \in 0..(N - 2) : NotGreater(Pt(ids[j]), Pt(ids[j + 1]))

\* C27: Triangle.area is positive exactly when (p0, p1, p2) are in
\* counter-clockwise order, x to the right and y up, negative exactly when
\* they are clockwise and zero exactly when they are collinear.
C27_AreaSign ==
    ret # <<>> =>
        /\ ret[1] > 0 <=> Orient(args[1], args[2], args[3]) > 0
        /\ ret[1] < 0 <=> Orient(args[1], args[2], args[3]) < 0
        /\ ret[1] = 0 <=> Orient(args[1], args[2], args[3]) = 0

\* the value the getter returns for Infinity
Infinite == [num |-> 1, den |-> 0]
\* the three points of the call are collinear, two equal points included
Degenerate == Orient(args[1], args[2], args[3]) = 0

LiveIn(m) == {nd \in 1..Len(m.nodes) : ~m.nodes[nd].removed}

\* from the state before the insertion to the attached state a one triangle
\* and one live node more, from a to the end ni of the insertion one
\* triangle more for every node removed
CountsKept(a, ni) ==
    /\ a.len = trianglesLength + 3
    /\ Cardinality(LiveIn(a)) = Cardinality(LiveNodes) + 1
    /\ ni.len - a.len
           = 3 * (Cardinality(LiveIn(a)) - Cardinality(LiveIn(ni)))
CountsStep(ni) == ni.err = "" => CountsKept(Attached, ni)

\* C29: after the seed and after every completed insertion the number of
\* triangles created is 2m - 2 - h, m the number of distinct points inserted
\* (the 3 seed vertices included) and h the number of live hull nodes; the
\* attach step adds one triangle and one hull node, the folds add one
\* triangle for each node they remove, legalize changes neither count.
C29_TriangleCount ==
    /\ pc = "insert" =>
           TriangleCount = 2 * Cardinality(inserted) - 2 - Cardinality(LiveNodes)
    /\ AboutToInsert => CountsStep(NextInsertion)
\* two points were inserted after the seed, the hull folded past a node and
\* one of the later triangles has two inner edges
C29_Witness ==
    /\ pc = "insert"
    /\ Cardinality(inserted) = 5
    /\ LiveNodes # 1..Len(nodes)
    /\ \E j \in 1..(TriangleCount - 1) :
           Get(halfEdges, 3 * j + 1) # 0 - 1 /\ Get(halfEdges, 3 * j + 2) # 0 - 1
    /\ TriangleCount = 8 - Cardinality(LiveNodes)

\* the point indices held by the slots of the triangle buffer in use
BufferVertices ==
    {Get(triangles, x) : x \in 0..(trianglesLength - 1)}

\* C30: for every valid input every input coordinate is a vertex of at least
\* one returned triangle; once a point has been inserted no later flip
\* removes its last occurrence from the triangle buffer.
C30_EveryPointKept ==
    /\ (Done /\ ValidInput) =>
           \A p \in PointSet : \E j \in 1..Len(out) : p \in VertexSet(out[j])
    /\ pc = "insert" => inserted \subseteq BufferVertices

====
